---- MODULE Spec2Model ----
(***************************************************************************)
(* A model of the geodesy transformation core: the Context (operation      *)
(* table, macro and operator registries, last-failure triplet, minion      *)
(* pool), the adapt operator and the pipeline operator.                    *)
(*                                                                         *)
(* Text is modelled as a sequence of one-character strings, so that        *)
(* trim_start and starts_with are computed as the code computes them.      *)
(* Option<T> is modelled as a sequence: <<>> is None and <<x>> is Some(x). *)
(***************************************************************************)
EXTENDS Integers, Sequences, FiniteSets, TLC

VARIABLES
    stack,                              \* Context.stack
    minions,                            \* Context.minions: one Context [stack, minions] per minion
    user_defined_operators,             \* name -> constructor
    user_defined_macros,                \* name -> definition
    operations,                         \* the operation table
    last_failing_operation_definition,
    last_failing_operation,
    cause,
    call                                \* the most recent public call, its arguments and its result

ctxVars == <<stack, minions, user_defined_operators, user_defined_macros, operations,
             last_failing_operation_definition, last_failing_operation, cause, call>>

\* One adapt operator and the tuple it is applied to
VARIABLES
    adapt_args,     \* the arguments Adapt::new was last given
    adapt,          \* what it returned: [ok |-> TRUE, ...] or [ok |-> FALSE, err]
    given,          \* the CoordinateTuple the caller handed in
    coord,          \* that tuple as the calls so far have left it
    applied         \* the directions operate was called with, oldest first

adaptVars == <<adapt_args, adapt, given, coord, applied>>

\* One pipeline operator and the batch it is applied to
VARIABLES
    pipe_definition,    \* the steps of the definition handed to new, as split_into_steps gives them
    pipe,               \* what new returned: [ok |-> TRUE, steps] or [ok |-> FALSE, err]
    pipe_operands,      \* the first component of each operand of the batch
    pipe_call,          \* the last application: its direction, the apply calls it made, its result
    pipe_calls          \* how many applications there have been

pipeVars == <<pipe_definition, pipe, pipe_operands, pipe_call, pipe_calls>>

\* One definition text and what the normalizer made of it
VARIABLES
    gys,            \* the text handed to is_gys or gys_to_yaml
    gys_call        \* the call made on it and its result

gysVars == <<gys, gys_call>>

\* One molodensky operator and the batch it is applied to
VARIABLES
    molo_args,      \* the arguments Molodensky::new was given
    molo,           \* what it returned
    molo_operands,  \* the batch, as the calls so far have left it
    molo_call,      \* the last call of fwd or inv: the batch it was given, its result
    molo_calls      \* how many calls there have been

moloVars == <<molo_args, molo, molo_operands, molo_call, molo_calls>>

vars == <<ctxVars, adaptVars, pipeVars, gysVars, moloVars>>

\* ------------------------------------------------------------------ bounds

\* Longest macro definition enumerated by the macro specification
MaxDefLen == 3
\* Most operations compiled into one Context
MaxOps == 2
\* Longest operand batch handed to operate by the general specification
MaxBatch == 1

\* ------------------------------------------------------- program constants

CHUNKS == 3
CHUNK_SIZE == 1000

\* --------------------------------------------------------------- text

None == <<>>
Some(x) == <<x>>

\* char::is_whitespace, on the characters the model uses
IsWhitespace(c) == c \in {" ", "\t", "\n", "\r"}

\* str::trim_start
RECURSIVE TrimStart(_)
TrimStart(s) ==
    IF s # <<>> /\ IsWhitespace(Head(s)) THEN TrimStart(Tail(s)) ELSE s

\* str::starts_with
StartsWith(s, prefix) ==
    /\ Len(prefix) <= Len(s)
    /\ SubSeq(s, 1, Len(prefix)) = prefix

\* All texts over alphabet of length at most n
RECURSIVE TextsUpTo(_, _)
TextsUpTo(alphabet, n) ==
    IF n = 0 THEN {<<>>}
    ELSE LET shorter == TextsUpTo(alphabet, n - 1)
         IN  shorter \cup {Append(t, c) : t \in shorter, c \in alphabet}

\* ---------------------------------------------------------- Context::new

\* Context::_new: a Context without minions
NewBare ==
    [stack |-> <<>>, minions |-> <<>>]

\* Context::new: a bare Context plus CHUNKS bare minions
NewMinions == [i \in 1..CHUNKS |-> NewBare]

\* #[derive(Default)]: every field is its type's default, and the default of
\* a Vec is the empty Vec
DefaultMinions == <<>>

NoCall == [op |-> "new"]
DefaultCall == [op |-> "default"]

\* A Context as its constructor leaves it, with one of the given pools
CtxStart(pools) ==
    /\ stack = NewBare.stack
    /\ minions \in pools
    /\ user_defined_operators = <<>>
    /\ user_defined_macros = <<>>
    /\ operations = <<>>
    /\ last_failing_operation_definition = <<>>
    /\ last_failing_operation = ""
    /\ cause = ""
    /\ call = IF minions = DefaultMinions THEN DefaultCall ELSE NoCall

\* Context::new()
CtxInit == CtxStart({NewMinions})

\* ------------------------------------------------- registries (HashMap)

\* HashMap::insert
MapInsert(map, key, value) ==
    [k \in DOMAIN map \cup {key} |-> IF k = key THEN value ELSE map[k]]

\* HashMap::get
MapGet(map, key) ==
    IF key \in DOMAIN map THEN Some(map[key]) ELSE None

\* Context::register_operator: insert, overwriting
RegisterOperator(name, constructor) ==
    /\ user_defined_operators' = MapInsert(user_defined_operators, name, constructor)
    /\ call' = [op |-> "register_operator", name |-> name]
    /\ UNCHANGED <<stack, minions, user_defined_macros, operations,
                   last_failing_operation_definition, last_failing_operation, cause>>
    /\ UNCHANGED <<adaptVars, pipeVars, gysVars, moloVars>>

\* Context::locate_operator
locate_operator(operators, name) == MapGet(operators, name)

\* Context::locate_macro
locate_macro(macros, name) == MapGet(macros, name)

\* register_macro's test without trim_start
MutIllegalStart(name, definition) ==
    StartsWith(definition, name \o <<":">>)

\* The test that opens register_macro: the definition starts with "name:"
IllegalStart(name, definition) ==
    StartsWith(TrimStart(definition), name \o <<":">>)

\* Context::register_macro, as a function of the registry: the registry it
\* leaves and the value it returns.  HashMap::insert stores the new value
\* and hands back the old one.
register_macro(macros, name, definition) ==
    IF IllegalStart(name, definition)
    THEN [macros |-> macros, ret |-> FALSE]
    ELSE LET old == MapGet(macros, name)
             new == MapInsert(macros, name, definition)
         IN  IF old # None
             THEN [macros |-> new, ret |-> FALSE]
             ELSE [macros |-> new, ret |-> TRUE]

RegisterMacro(name, definition) ==
    LET r == register_macro(user_defined_macros, name, definition)
    IN  /\ user_defined_macros' = r.macros
        /\ call' = [op |-> "register_macro", name |-> name,
                    definition |-> definition, ret |-> r.ret]
        /\ UNCHANGED <<stack, minions, user_defined_operators, operations,
                       last_failing_operation_definition, last_failing_operation, cause>>
        /\ UNCHANGED <<adaptVars, pipeVars, gysVars, moloVars>>

\* ------------------------------------------------ operator construction

\* Builtin operator names: "a" stands for addone
Builtins == {<<"a">>}

\* The name of the step a definition opens with: its first token, up to
\* whitespace or the ':' that ends a longhand key
RECURSIVE TakeName(_)
TakeName(s) ==
    IF s = <<>> \/ IsWhitespace(Head(s)) \/ Head(s) = ":" THEN <<>>
    ELSE <<Head(s)>> \o TakeName(Tail(s))

StepName(definition) == TakeName(TrimStart(definition))

\* Name resolution of the operator factory: user macro (expanded, and the
\* lookup re-entered), user operator, builtin, otherwise not found.  fuel
\* counts the macro expansions still allowed.
RECURSIVE Resolve(_, _, _, _)
Resolve(name, macros, operators, fuel) ==
    IF name = <<>>
    THEN [op |-> None, which |-> "Operator", why |-> "Empty step"]
    ELSE IF locate_macro(macros, name) # None
    THEN IF fuel = 0
         THEN [op |-> None, which |-> "Operator", why |-> "Too deep recursion"]
         ELSE Resolve(StepName(locate_macro(macros, name)[1]), macros, operators, fuel - 1)
    ELSE IF locate_operator(operators, name) # None
    THEN [op |-> Some([kind |-> locate_operator(operators, name)[1]]),
          which |-> "", why |-> ""]
    ELSE IF name \in Builtins
    THEN [op |-> Some([kind |-> "addone"]), which |-> "", why |-> ""]
    ELSE [op |-> None, which |-> "Operator", why |-> "NotFound"]

\* Operator::new(definition, ctx): the compiled operator, or None together
\* with the (which, why) it reports through Context::error
OperatorNew(definition, macros, operators) ==
    Resolve(StepName(definition), macros, operators, Cardinality(DOMAIN macros))

\* Context::error
Error(which, why) ==
    /\ last_failing_operation' = which
    /\ cause' = why

\* The handle read after the push instead of before it
MutNextHandle(ops) == Len(ops) + 1

\* The handle of the operation about to be stored: operations.len()
NextHandle(ops) == Len(ops)

\* push replaced by an insert at the front
MutPushOperation(ops, op) == <<op>> \o ops

\* The table after operations.push(op)
PushOperation(ops, op) == Append(ops, op)

\* Context::operation
Operation(definition) ==
    LET built == OperatorNew(definition, user_defined_macros, user_defined_operators)
    IN  /\ last_failing_operation_definition' = definition
        /\ IF built.op = None
           THEN /\ Error(built.which, built.why)
                /\ operations' = operations
                /\ call' = [op |-> "operation", definition |-> definition,
                            built |-> FALSE, ret |-> None]
           ELSE /\ last_failing_operation' = ""
                /\ cause' = ""
                /\ operations' = PushOperation(operations, built.op[1])
                /\ call' = [op |-> "operation", definition |-> definition,
                            built |-> TRUE, ret |-> Some(NextHandle(operations))]
        /\ UNCHANGED <<stack, minions, user_defined_operators, user_defined_macros>>
        /\ UNCHANGED <<adaptVars, pipeVars, gysVars, moloVars>>

\* ---------------------------------------------------------------- operate

\* A CoordinateTuple with its first component changed by d
Shift(o, d) == <<o[1] + d, o[2], o[3], o[4]>>

\* Operator::operate on one chunk, with the Context it is given: the
\* operands and the Context's stack as it leaves them, and its result.
\*   addone  adds one (forward) or subtracts one (inverse)
\*   pusher  a user operator that pushes a copy of its operands on the stack
\*   failer  a user operator that reports failure
OperatorOperate(op, ctxstack, operands, forward) ==
    CASE op.kind = "addone" ->
            [operands |-> [k \in DOMAIN operands |->
                              Shift(operands[k], IF forward THEN 1 ELSE -1)],
             stack |-> ctxstack, ok |-> TRUE]
      [] op.kind = "pusher" ->
            [operands |-> operands, stack |-> Append(ctxstack, operands), ok |-> TRUE]
      [] OTHER ->
            [operands |-> operands, stack |-> ctxstack, ok |-> FALSE]

\* Context::_operate, called on a minion
_operate(minion, operator, operands, forward) ==
    OperatorOperate(operator, minion.stack, operands, forward)

Min(a, b) == IF a < b THEN a ELSE b

\* The minion chosen for the chunk after the one minion i served
NextMinion(i) == (i + 1) % CHUNKS

\* The minion pool after minions[i].stack.clear()
ClearStack(mins, i) == [mins EXCEPT ![i + 1].stack = <<>>]

\* The for loop of Context::operate over operands.chunks_mut(CHUNK_SIZE):
\* start is the (1-based) position of the next chunk, i the minion index.
RECURSIVE OperateChunks(_, _, _, _, _, _, _, _)
OperateChunks(operator, mins, operands, forward, start, i, result, chunks) ==
    IF start > Len(operands)
    THEN [minions |-> mins, operands |-> operands, ret |-> result, chunks |-> chunks,
          panicked |-> FALSE]
    ELSE IF i >= Len(mins)
    THEN \* self.minions[i]: index out of bounds, the call panics
         [minions |-> mins, operands |-> operands, ret |-> result, chunks |-> chunks,
          panicked |-> TRUE]
    ELSE LET end == Min(start + CHUNK_SIZE - 1, Len(operands))
             r == _operate(mins[i + 1], operator, SubSeq(operands, start, end), forward)
             worked == [mins EXCEPT ![i + 1].stack = r.stack]
         IN  OperateChunks(operator,
                           ClearStack(worked, i),
                           SubSeq(operands, 1, start - 1) \o r.operands
                               \o SubSeq(operands, end + 1, Len(operands)),
                           forward, end + 1, NextMinion(i), result /\ r.ok,
                           Append(chunks, [minion |-> i, first |-> start - 1,
                                           len |-> end - start + 1, ok |-> r.ok]))

\* The handle test that opens Context::operate
InvalidHandle(ops, operation) == operation >= Len(ops)

\* An invalid handle recorded, but the result left true
MutRejected ==
    [which |-> "Invalid",
     why |-> "Attempt to access an invalid operator from context",
     ret |-> TRUE]

\* What operate records and returns for an invalid handle
Rejected ==
    [which |-> "Invalid",
     why |-> "Attempt to access an invalid operator from context",
     ret |-> FALSE]

\* Context::operate
Operate(operation, operands, forward) ==
    /\ UNCHANGED <<adaptVars, pipeVars, gysVars, moloVars>>
    /\ IF InvalidHandle(operations, operation)
       THEN /\ last_failing_operation' = Rejected.which
            /\ cause' = Rejected.why
            /\ call' = [op |-> "operate", operation |-> operation, forward |-> forward,
                        given |-> operands, operands |-> operands, chunks |-> <<>>,
                        ret |-> Rejected.ret, valid |-> FALSE, panicked |-> FALSE]
            /\ UNCHANGED <<stack, minions, user_defined_operators, user_defined_macros,
                           operations, last_failing_operation_definition>>
       ELSE LET r == OperateChunks(operations[operation + 1], minions, operands,
                                   forward, 1, 0, TRUE, <<>>)
            IN  /\ minions' = r.minions
                /\ call' = [op |-> "operate", operation |-> operation, forward |-> forward,
                            given |-> operands, operands |-> r.operands,
                            chunks |-> r.chunks, ret |-> r.ret, valid |-> TRUE,
                            panicked |-> r.panicked]
                /\ UNCHANGED <<stack, user_defined_operators, user_defined_macros,
                               operations, last_failing_operation_definition,
                               last_failing_operation, cause>>

\* Context::fwd
Fwd(operation, operands) == Operate(operation, operands, TRUE)

\* Context::inv
Inv(operation, operands) == Operate(operation, operands, FALSE)

\* Context::report: the three fields it renders, in the order of its format string
Report ==
    /\ call' = [op |-> "report",
                ret |-> <<"Last failure in ", last_failing_operation, ": ", cause, "\n",
                          last_failing_operation_definition>>]
    /\ UNCHANGED <<stack, minions, user_defined_operators, user_defined_macros,
                   operations, last_failing_operation_definition,
                   last_failing_operation, cause>>
    /\ UNCHANGED <<adaptVars, pipeVars, gysVars, moloVars>>

\* ------------------------------------------------- the Context's callers

\* Names the callers register macros and operators under
MacroNames == {<<"m">>, <<"n">>}
OperatorNames == {<<"u">>}
Constructors == {"pusher", "failer"}

\* Macro definitions and operation definitions the callers hand in
MacroSamples == {<<"a">>, <<"m", ":">>}
OperationSamples == {<<"a">>, <<"u">>, <<"n">>, <<"x">>, <<>>}

Origin == <<0, 0, 0, 0>>
Batches == {[k \in 1..n |-> Origin] : n \in 0..MaxBatch}

\* ------------------------------------------------------------- numbers
\* The multipliers of adapt are signs and ratios of pi/180, pi/200 and 1.
\* A number is held exactly as (n/d) * pi^p, with n/d in lowest terms.

RECURSIVE GCD(_, _)
GCD(a, b) == IF b = 0 THEN a ELSE GCD(b, a % b)

Abs(x) == IF x < 0 THEN -x ELSE x

\* i32::signum
Signum(x) == IF x < 0 THEN -1 ELSE IF x > 0 THEN 1 ELSE 0

Norm(n, d, p) ==
    IF n = 0 THEN [n |-> 0, d |-> 1, p |-> 0]
    ELSE LET g == GCD(Abs(n), Abs(d))
         IN  [n |-> (Signum(d) * n) \div g, d |-> Abs(d) \div g, p |-> p]

Num(k) == Norm(k, 1, 0)
Mul(x, y) == Norm(x.n * y.n, x.d * y.d, x.p + y.p)
\* x / y, for y # 0
Div(x, y) == Norm(x.n * y.d, x.d * y.n, x.p - y.p)

One == Num(1)
\* std::f64::consts::PI / 180. and PI / 200.
DegToRad == Norm(1, 180, 1)
GonToRad == Norm(1, 200, 1)

\* ---------------------------------------------------------------- adapt

\* Most calls of operate on one adapt operator
MaxApply == 2

Pass == <<"p", "a", "s", "s">>
Enut == <<"e", "n", "u", "t">>
SuffixDeg == <<"_", "d", "e", "g">>
SuffixGon == <<"_", "g", "o", "n">>
SuffixRad == <<"_", "r", "a", "d">>
SuffixAny == <<"_", "a", "n", "y">>

\* str::ends_with
EndsWith(s, suffix) ==
    /\ Len(suffix) <= Len(s)
    /\ SubSeq(s, Len(s) - Len(suffix) + 1, Len(s)) = suffix

\* The match of descriptor(): sign and (1-based) position of a designator
Designator(d) ==
    CASE d = "w" -> -1 [] d = "s" -> -2 [] d = "d" -> -3 [] d = "r" -> -4
      [] d = "e" -> 1  [] d = "n" -> 2  [] d = "u" -> 3  [] d = "t" -> 4
      [] OTHER -> 0

\* Whether mult is [1.0; 4] and post is [0, 1, 2, 3]
IsNoop(post, mult) ==
    mult = <<One, One, One, One>> /\ post = <<0, 1, 2, 3>>

\* descriptor(desc): Some(CoordinateOrderDescriptor) or None.  post holds
\* 0-based positions, as in the code; the arrays are indexed from 1 here.
descriptor(desc) ==
    IF desc = Pass
    THEN Some([post |-> <<0, 1, 2, 3>>, mult |-> <<One, One, One, One>>, noop |-> TRUE])
    ELSE IF Len(desc) # 4 /\ Len(desc) # 8 THEN None
    ELSE IF Len(desc) = 8 /\ ~(\/ EndsWith(desc, SuffixDeg) \/ EndsWith(desc, SuffixGon)
                               \/ EndsWith(desc, SuffixRad) \/ EndsWith(desc, SuffixAny))
    THEN None
    ELSE LET torad == IF Len(desc) = 8 /\ EndsWith(desc, SuffixDeg) THEN DegToRad
                      ELSE IF Len(desc) = 8 /\ EndsWith(desc, SuffixGon) THEN GonToRad
                      ELSE One
             indices == [i \in 1..4 |-> Designator(desc[i])]
             count == [k \in 1..4 |->
                          Cardinality({i \in 1..4 : Abs(indices[i]) - 1 = k - 1})]
             post == [i \in 1..4 |-> Abs(indices[i]) - 1]
             mult == [i \in 1..4 |->
                         Mul(Num(Signum(indices[i])), IF i - 1 > 1 THEN One ELSE torad)]
         IN  IF \E i \in 1..4 : indices[i] = 0 THEN None
             ELSE IF count # <<1, 1, 1, 1>> THEN None
             ELSE Some([post |-> post, mult |-> mult, noop |-> IsNoop(post, mult)])

\* from.post.iter().position(|&p| p == x), 0-based
Position(post, x) == (CHOOSE i \in 1..4 : post[i] = x) - 1

\* combine_descriptors(from, to)
combine_descriptors(from, to) ==
    LET mult == [i \in 1..4 |-> Div(from.mult[i], to.mult[i])]
        post == [i \in 1..4 |-> Position(from.post, to.post[i])]
    IN  [post |-> post, mult |-> mult, noop |-> IsNoop(post, mult)]

\* args.string(key, default), for an argument that is given (Some) or not
ArgString(arg, default) == IF arg = None THEN default ELSE arg[1]

\* Adapt::new, for args [inv, from, to]
AdaptNew(args) ==
    LET inverted == args.inv
        from0 == ArgString(args.from, Enut)
        to0 == ArgString(args.to, Enut)
        from == IF inverted THEN to0 ELSE from0
        to == IF inverted THEN from0 ELSE to0
    IN  IF descriptor(from) = None
        THEN [ok |-> FALSE, err |-> "Bad value for 'from'"]
        ELSE IF descriptor(to) = None
        THEN [ok |-> FALSE, err |-> "Bad value for 'to'"]
        ELSE LET give == combine_descriptors(descriptor(from)[1], descriptor(to)[1])
             IN  [ok |-> TRUE, inverted |-> inverted, post |-> give.post,
                  mult |-> give.mult, noop |-> give.noop]

\* Adapt::fwd on one operand
AdaptFwd(op, o) ==
    IF op.noop THEN o
    ELSE [i \in 1..4 |-> Mul(o[op.post[i] + 1], op.mult[i])]

\* Adapt::inv on one operand: c[post[i]] = o[i] / mult[post[i]]
AdaptInv(op, o) ==
    IF op.noop THEN o
    ELSE [j \in 1..4 |->
             LET i == CHOOSE i \in 1..4 : op.post[i] = j - 1
             IN  Div(o[i], op.mult[op.post[i] + 1])]

\* The default OperatorCore::operate, which lets the inverted flag swap the kernels
MutAdaptOperate(op, o, forward) ==
    IF forward # op.inverted THEN AdaptFwd(op, o) ELSE AdaptInv(op, o)

\* Adapt::operate, which overrides the default: the direction alone decides
AdaptOperate(op, o, forward) ==
    IF forward THEN AdaptFwd(op, o) ELSE AdaptInv(op, o)

\* The descriptors the callers of adapt hand in
Designators == {"e", "n", "u", "t", "w", "s", "d", "r"}
FourLetters == {<<a, b, c, d>> : a \in Designators, b \in Designators,
                                 c \in Designators, d \in Designators}
\* Those descriptor() accepts, and a few that it does not
ValidLetters == {l \in FourLetters : descriptor(l) # None}
Malformed == {<<"n", "s", "u", "t">>, <<"s", "e", "d", "t", "_", "p", "a", "p">>,
              <<"e", "n", "u">>, <<"e", "n", "u", "x">>}
Descriptors ==
    ValidLetters \cup {l \o u : l \in ValidLetters, u \in {SuffixDeg, SuffixGon, SuffixRad, SuffixAny}}
                 \cup {Pass} \cup Malformed
\* The second descriptor of the pairs handed in
Partners == {Enut, <<"w", "n", "u", "t">>, <<"n", "e", "u", "t">>,
             <<"n", "e", "u", "t">> \o SuffixDeg, Enut \o SuffixGon,
             <<"w", "n", "d", "t">> \o SuffixGon}

AdaptArgs ==
    {[inv |-> FALSE, from |-> None, to |-> Some(x)] : x \in Descriptors}
    \cup {[inv |-> TRUE, from |-> Some(x), to |-> None] : x \in Descriptors}
    \cup {[inv |-> i, from |-> Some(x), to |-> Some(y)] :
             i \in BOOLEAN, x \in ValidLetters \cup Partners, y \in Partners}
    \cup {[inv |-> FALSE, from |-> Some(x), to |-> Some(y)] :
             x \in Partners, y \in ValidLetters}

Tuples == {<<Num(1), Num(2), Num(3), Num(4)>>, <<Num(-5), Num(0), Num(7), Num(7)>>}

NotBuilt == [ok |-> FALSE, err |-> ""]

\* No adapt operator yet, and the tuples a caller may hold
AdaptStart(tuples) ==
    /\ adapt_args = [inv |-> FALSE, from |-> None, to |-> None]
    /\ adapt = NotBuilt
    /\ given \in tuples
    /\ coord = given
    /\ applied = <<>>

\* Adapt::new is called
AdaptConstruct(args) ==
    /\ adapt = NotBuilt
    /\ adapt_args' = args
    /\ adapt' = AdaptNew(args)
    /\ UNCHANGED <<given, coord, applied>>
    /\ UNCHANGED <<ctxVars, pipeVars, gysVars, moloVars>>

\* operate is called on the operator
AdaptApply(forward) ==
    /\ adapt.ok
    /\ Len(applied) < MaxApply
    /\ coord' = AdaptOperate(adapt, coord, forward)
    /\ applied' = Append(applied, forward)
    /\ UNCHANGED <<adapt_args, adapt, given>>
    /\ UNCHANGED <<ctxVars, pipeVars, gysVars, moloVars>>

\* -------------------------------------------------------------- pipeline

\* Most steps of one pipeline definition
MaxSteps == 3
\* Most applications of one pipeline
MaxCalls == 2

\* usize::MAX, held as the largest integer of the model
USIZE_MAX == 2147483647

\* Op::op for one step of the definition: the compiled step, or the error
\* of the lookup.  addone is the test scaffold; "other" stands for any
\* builtin whose kernel may fail on some operands.
OpOp(step) ==
    IF step.name \in {"addone", "other"}
    THEN [ok |-> TRUE, step |-> [name |-> step.name, inverted |-> step.inv]]
    ELSE [ok |-> FALSE, err |-> <<"NotFound", step.name>>]

\* The loop with a failing step skipped instead of returned
RECURSIVE MutCompileSteps(_, _)
MutCompileSteps(thesteps, steps) ==
    IF thesteps = <<>> THEN [ok |-> TRUE, steps |-> steps]
    ELSE LET built == OpOp(Head(thesteps))
         IN  IF ~built.ok THEN MutCompileSteps(Tail(thesteps), steps)
             ELSE MutCompileSteps(Tail(thesteps), Append(steps, built.step))

\* The for loop of new: every step is compiled, the first error returns
RECURSIVE CompileSteps(_, _)
CompileSteps(thesteps, steps) ==
    IF thesteps = <<>> THEN [ok |-> TRUE, steps |-> steps]
    ELSE LET built == OpOp(Head(thesteps))
         IN  IF ~built.ok THEN [ok |-> FALSE, err |-> built.err]
             ELSE CompileSteps(Tail(thesteps), Append(steps, built.step))

\* inner_op::pipeline::new
PipelineNew(thesteps) == CompileSteps(thesteps, <<>>)

\* Op::apply of one step: its inverted flag composes with the direction by
\* XOR and selects the kernel.  count is what a kernel other than addone
\* reports; addone changes every operand and reports them all.
StepApply(step, operands, direction, count) ==
    LET forward == (direction = "Fwd") # step.inverted
    IN  IF step.name = "addone"
        THEN [operands |-> [k \in DOMAIN operands |->
                               operands[k] + (IF forward THEN 1 ELSE -1)],
              n |-> Len(operands)]
        ELSE [operands |-> operands, n |-> count]

\* The order in which pipeline_fwd visits op.steps
FwdOrder(steps) == [i \in 1..Len(steps) |-> i]

\* pipeline_inv without rev()
MutInvOrder(steps) == [i \in 1..Len(steps) |-> i]

\* The order in which pipeline_inv visits op.steps: iter().rev()
InvOrder(steps) == [i \in 1..Len(steps) |-> Len(steps) + 1 - i]

\* n.min(step.apply(...))
NextN(n, applied_n) == Min(n, applied_n)

\* The loop shared by pipeline_fwd and pipeline_inv: visit the steps in
\* order, keep the minimum of what they report
RECURSIVE RunSteps(_, _, _, _, _, _, _)
RunSteps(steps, order, operands, direction, counts, n, trace) ==
    IF order = <<>> THEN [operands |-> operands, n |-> n, trace |-> trace]
    ELSE LET i == Head(order)
             r == StepApply(steps[i], operands, direction, counts[i])
         IN  RunSteps(steps, Tail(order), r.operands, direction, counts,
                      NextN(n, r.n),
                      Append(trace, [step |-> i, direction |-> direction, n |-> r.n]))

pipeline_fwd(op, operands, counts) ==
    RunSteps(op.steps, FwdOrder(op.steps), operands, "Fwd", counts, USIZE_MAX, <<>>)

\* pipeline_inv handing Direction::Fwd to its steps
Mut_pipeline_inv(op, operands, counts) ==
    RunSteps(op.steps, InvOrder(op.steps), operands, "Fwd", counts, USIZE_MAX, <<>>)

pipeline_inv(op, operands, counts) ==
    RunSteps(op.steps, InvOrder(op.steps), operands, "Inv", counts, USIZE_MAX, <<>>)

\* The steps a definition may hold
StepDefinitions ==
    {[name |-> "addone", inv |-> i] : i \in BOOLEAN}
    \cup {[name |-> "other", inv |-> FALSE], [name |-> "_garbage", inv |-> FALSE],
          [name |-> "_rubbish", inv |-> FALSE]}

RECURSIVE SeqsUpTo(_, _)
SeqsUpTo(S, n) ==
    IF n = 0 THEN {<<>>}
    ELSE LET shorter == SeqsUpTo(S, n - 1)
         IN  shorter \cup {Append(t, x) : t \in shorter, x \in S}

\* etc::some_basic_coordinates, first components
PipeBatches == {<<>>, <<55, 59>>}

NoPipe == [ok |-> FALSE, err |-> <<>>]
NoPipeCall == [direction |-> "", trace |-> <<>>, ret |-> 0, given |-> <<>>,
               prev |-> [direction |-> "", given |-> <<>>]]

\* What an application remembers of the one before it
Previous == [direction |-> pipe_call.direction, given |-> pipe_call.given]

\* No pipeline yet, and the batches a caller may hold
PipeStart(batches) ==
    /\ pipe_definition = <<>>
    /\ pipe = NoPipe
    /\ pipe_operands \in batches
    /\ pipe_call = NoPipeCall
    /\ pipe_calls = 0

\* new is called
PipelineConstruct(thesteps) ==
    /\ pipe = NoPipe
    /\ pipe_definition' = thesteps
    /\ pipe' = PipelineNew(thesteps)
    /\ UNCHANGED <<pipe_operands, pipe_call, pipe_calls>>
    /\ UNCHANGED <<ctxVars, adaptVars, gysVars, moloVars>>

\* The pipeline is applied forward
PipelineFwd(counts) ==
    /\ pipe.ok
    /\ pipe_calls < MaxCalls
    /\ LET r == pipeline_fwd(pipe, pipe_operands, counts)
       IN  /\ pipe_operands' = r.operands
           /\ pipe_call' = [direction |-> "Fwd", trace |-> r.trace, ret |-> r.n,
                            given |-> pipe_operands, prev |-> Previous]
    /\ pipe_calls' = pipe_calls + 1
    /\ UNCHANGED <<pipe_definition, pipe>>
    /\ UNCHANGED <<ctxVars, adaptVars, gysVars, moloVars>>

\* The pipeline is applied in inverse
PipelineInv(counts) ==
    /\ pipe.ok
    /\ pipe_calls < MaxCalls
    /\ LET r == pipeline_inv(pipe, pipe_operands, counts)
       IN  /\ pipe_operands' = r.operands
           /\ pipe_call' = [direction |-> "Inv", trace |-> r.trace, ret |-> r.n,
                            given |-> pipe_operands, prev |-> Previous]
    /\ pipe_calls' = pipe_calls + 1
    /\ UNCHANGED <<pipe_definition, pipe>>
    /\ UNCHANGED <<ctxVars, adaptVars, gysVars, moloVars>>

\* What the kernels other than addone may report for a batch
Counts == [1..Len(pipe.steps) -> 0..Len(pipe_operands)]

\* ----------------------------------------------------------- molodensky
\* An f64 is held exactly as the rational n/d (p = 0), or as NaN (d = 0).
\* The operands stay on lambda = 0, phi = 0, where sin and cos are exact.

\* Most calls of fwd or inv on one molodensky operator
MaxMoloCalls == 2

NaN == [n |-> 0, d |-> 0, p |-> 0]
IsNaN(x) == x.d = 0
Zero == Num(0)

\* f64 +, -, *, / : NaN in, NaN out
FAdd(x, y) == IF IsNaN(x) \/ IsNaN(y) THEN NaN ELSE Norm(x.n * y.d + y.n * x.d, x.d * y.d, 0)
FNeg(x) == IF IsNaN(x) THEN NaN ELSE Norm(-x.n, x.d, 0)
FSub(x, y) == FAdd(x, FNeg(y))
FMul(x, y) == IF IsNaN(x) \/ IsNaN(y) THEN NaN ELSE Mul(x, y)
FDiv(x, y) == IF IsNaN(x) \/ IsNaN(y) \/ y.n = 0 THEN NaN ELSE Div(x, y)

\* x == 0.0, which NaN never is
IsZero(x) == ~IsNaN(x) /\ x.n = 0

\* The ellipsoid table: three ellipsoids with small exact parameters stand
\* for the builtin ones; any other name is unknown.
Ellipsoids ==
    [GRS80  |-> [a |-> Num(6), f |-> Norm(1, 3, 0)],
     intl   |-> [a |-> Num(7), f |-> Norm(1, 4, 0)],
     bessel |-> [a |-> Num(5), f |-> Norm(1, 5, 0)]]

\* Ellipsoid::named: Ok(ellipsoid) or Err
EllipsoidNamed(name) ==
    IF name \in DOMAIN Ellipsoids THEN Some(Ellipsoids[name]) ELSE None

\* Ellipsoid::default
EllipsoidDefault == Ellipsoids["GRS80"]

semimajor_axis(ellps) == ellps.a
flattening(ellps) == ellps.f
\* f (2 - f)
eccentricity_squared(ellps) == FMul(ellps.f, FSub(Num(2), ellps.f))

\* f64::sin_cos, at 0 and at NaN
SinCos(x) ==
    CASE IsNaN(x) -> [sin |-> NaN, cos |-> NaN]
      [] IsZero(x) -> [sin |-> Zero, cos |-> One]

\* N(phi) = a / sqrt(1 - e2 sin2(phi)), where sin(phi) is 0 or NaN
prime_vertical_radius_of_curvature(ellps, phi) ==
    IF IsNaN(phi) THEN NaN ELSE ellps.a

\* M(phi) = a (1 - e2) / (1 - e2 sin2(phi))^(3/2), where sin(phi) is 0 or NaN
meridian_radius_of_curvature(ellps, phi) ==
    IF IsNaN(phi) THEN NaN
    ELSE FMul(ellps.a, FSub(One, eccentricity_squared(ellps)))

\* Result::unwrap_or and Result::unwrap_or_default
UnwrapOr(result, default) == IF result = None THEN default ELSE result[1]

\* A value that is not the text of a number
Unparsable == [n |-> 0, d |-> 0, p |-> 1]

\* args.numeric(key, default): the default for a key not given, the number
\* for a value that parses, an error otherwise
ArgNumeric(arg, default) ==
    IF arg = None THEN [ok |-> TRUE, v |-> default]
    ELSE IF arg[1] = Unparsable THEN [ok |-> FALSE, v |-> NaN]
    ELSE [ok |-> TRUE, v |-> arg[1]]

\* args.value(key).is_ok()
ArgGiven(arg) == arg # None

\* Molodensky::new, for args [inv, abridged, ellps, left_ellps, right_ellps,
\* dx, dy, dz, da, df]
MolodenskyNew(args) ==
    LET inverted == args.inv
        ellps == UnwrapOr(EllipsoidNamed(ArgString(args.ellps, "")), EllipsoidDefault)
        abridged == args.abridged
        dx == ArgNumeric(args.dx, Zero)
        dy == ArgNumeric(args.dy, Zero)
        dz == ArgNumeric(args.dz, Zero)
        da == ArgNumeric(args.da, Zero)
        df == ArgNumeric(args.df, Zero)
        left_ellps == UnwrapOr(EllipsoidNamed(ArgString(args.ellps, "")), ellps)
        right_ellps == UnwrapOr(EllipsoidNamed(ArgString(args.right_ellps, "")), ellps)
        da2 == IF ArgGiven(args.right_ellps)
               THEN FSub(semimajor_axis(right_ellps), semimajor_axis(left_ellps))
               ELSE da.v
        df2 == IF ArgGiven(args.right_ellps)
               THEN FSub(flattening(right_ellps), flattening(left_ellps))
               ELSE df.v
        es == eccentricity_squared(left_ellps)
        adffda == FAdd(FMul(semimajor_axis(left_ellps), df2),
                       FMul(flattening(left_ellps), da2))
    IN  IF \E r \in {dx, dy, dz, da, df} : ~r.ok
        THEN [ok |-> FALSE, err |-> "BadParameter"]
        ELSE [ok |-> TRUE, ellps |-> left_ellps, inverted |-> inverted,
              abridged |-> abridged, dx |-> dx.v, dy |-> dy.v, dz |-> dz.v,
              da |-> da2, df |-> df2, adffda |-> adffda, es |-> es]

\* CoordinateTuple::nan and CoordinateTuple::raw
TupleNan == <<NaN, NaN, NaN, NaN>>
TupleRaw(c0, c1, c2, c3) == <<c0, c1, c2, c3>>

\* Molodensky::calc_molodensky_params
calc_molodensky_params(self, c) ==
    LET a == semimajor_axis(self.ellps)
        f == flattening(self.ellps)
        es == self.es
        dx == self.dx
        dy == self.dy
        dz == self.dz
        da == self.da
        df == self.df
        adffda == self.adffda
        lam == c[1]
        phi == c[2]
        h == c[3]
        slam == SinCos(lam).sin
        clam == SinCos(lam).cos
        sphi == SinCos(phi).sin
        cphi == SinCos(phi).cos
        sin2phi == SinCos(FMul(Num(2), phi)).sin
        N == prime_vertical_radius_of_curvature(self.ellps, phi)
        M == meridian_radius_of_curvature(self.ellps, phi)
        fac == FAdd(FMul(dx, clam), FMul(dy, slam))
        dlam_num == FSub(FMul(dy, clam), FMul(dx, slam))
    IN  IF self.abridged
        THEN LET dphi == FDiv(FAdd(FAdd(FMul(FNeg(fac), sphi), FMul(dz, cphi)),
                                   FMul(adffda, sin2phi)), M)
                 dlam_denom == FMul(N, cphi)
                 dh == FSub(FAdd(FMul(fac, cphi),
                                 FMul(FAdd(dz, FMul(adffda, sphi)), sphi)), da)
             IN  IF IsZero(dlam_denom) THEN TupleNan
                 ELSE TupleRaw(FDiv(dlam_num, dlam_denom), dphi, dh, Zero)
        ELSE LET dphi_num ==
                     FAdd(FSub(FMul(FAdd(dz, FDiv(FMul(FMul(FMul(N, es), sphi), da), a)), cphi),
                               FMul(fac, sphi)),
                          FMul(FMul(FMul(FAdd(FDiv(M, FSub(One, f)), FMul(N, FSub(One, f))),
                                         df), sphi), cphi))
                 dphi_denom == FAdd(M, h)
                 dlam_denom == FMul(FAdd(N, h), cphi)
                 dh == FAdd(FSub(FAdd(FMul(fac, cphi), FMul(dz, sphi)),
                                 FMul(FDiv(a, N), da)),
                            FMul(FMul(FMul(FMul(N, FSub(One, f)), df), sphi), sphi))
             IN  IF IsZero(dphi_denom) THEN TupleNan
                 ELSE IF IsZero(dlam_denom) THEN TupleNan
                 ELSE TupleRaw(FDiv(dlam_num, dlam_denom), FDiv(dphi_num, dphi_denom),
                               dh, Zero)

\* OperatorCore::fwd of Molodensky: the batch as it leaves it, and its result
MolodenskyFwd(self, operands) ==
    [operands |-> [k \in DOMAIN operands |->
                      LET c == operands[k]
                          par == calc_molodensky_params(self, c)
                      IN  <<FAdd(c[1], par[1]), FAdd(c[2], par[2]),
                            FAdd(c[3], par[3]), c[4]>>],
     ret |-> TRUE]

\* OperatorCore::inv of Molodensky
MolodenskyInv(self, operands) ==
    [operands |-> [k \in DOMAIN operands |->
                      LET c == operands[k]
                          par == calc_molodensky_params(self, c)
                      IN  <<FSub(c[1], par[1]), FSub(c[2], par[2]),
                            FSub(c[3], par[3]), c[4]>>],
     ret |-> TRUE]

\* The callers of molodensky: ellipsoid names known and unknown, a shift
\* along x, a change of the semimajor axis, a number that does not parse
EllipsoidNames == {"intl", "bessel", "nowhere"}
NameArgs == {None} \cup {Some(name) : name \in EllipsoidNames}

MoloArgs ==
    [inv : {FALSE}, abridged : BOOLEAN,
     ellps : NameArgs, left_ellps : NameArgs, right_ellps : NameArgs,
     dx : {None, Some(One), Some(Unparsable)}, dy : {None}, dz : {None},
     da : {None, Some(One)}, df : {None}]

\* A point on lambda = 0, phi = 0 at height h
AtHeight(h) == <<Zero, Zero, h, Zero>>

\* Heights: 0, and the two at which GRS80 gives a zero denominator:
\* h = -M(0) = -a (1 - e2) and h = -N(0) = -a
MoloBatches ==
    {<<>>,
     <<AtHeight(Zero)>>,
     <<AtHeight(Norm(-8, 3, 0)), AtHeight(Zero)>>,
     <<AtHeight(Zero), AtHeight(Num(-6))>>}

NoMolo == [ok |-> FALSE, err |-> ""]
NoMoloArgs ==
    [inv |-> FALSE, abridged |-> FALSE, ellps |-> None, left_ellps |-> None,
     right_ellps |-> None, dx |-> None, dy |-> None, dz |-> None, da |-> None,
     df |-> None]
NoMoloCall == [op |-> "", given |-> <<>>, ret |-> FALSE]

\* No operator yet, and the batch a caller holds
MoloStart(batches) ==
    /\ molo_args = NoMoloArgs
    /\ molo = NoMolo
    /\ molo_operands \in batches
    /\ molo_call = NoMoloCall
    /\ molo_calls = 0

\* Molodensky::new is called
MoloConstruct(args) ==
    /\ molo = NoMolo
    /\ molo_args' = args
    /\ molo' = MolodenskyNew(args)
    /\ UNCHANGED <<molo_operands, molo_call, molo_calls>>
    /\ UNCHANGED <<ctxVars, adaptVars, pipeVars, gysVars>>

\* fwd is called on the batch
MoloFwd ==
    /\ molo.ok
    /\ molo_calls < MaxMoloCalls
    /\ LET r == MolodenskyFwd(molo, molo_operands)
       IN  /\ molo_operands' = r.operands
           /\ molo_call' = [op |-> "fwd", given |-> molo_operands, ret |-> r.ret]
    /\ molo_calls' = molo_calls + 1
    /\ UNCHANGED <<molo_args, molo>>
    /\ UNCHANGED <<ctxVars, adaptVars, pipeVars, gysVars>>

\* inv is called on the batch
MoloInv ==
    /\ molo.ok
    /\ molo_calls < MaxMoloCalls
    /\ LET r == MolodenskyInv(molo, molo_operands)
       IN  /\ molo_operands' = r.operands
           /\ molo_call' = [op |-> "inv", given |-> molo_operands, ret |-> r.ret]
    /\ molo_calls' = molo_calls + 1
    /\ UNCHANGED <<molo_args, molo>>
    /\ UNCHANGED <<ctxVars, adaptVars, pipeVars, gysVars>>

\* ------------------------------------------------------ GYS normalizer

\* Longest text handed to is_gys
MaxGysLen == 4
\* Longest text handed to gys_to_yaml
MaxYamlLen == 5

\* str::trim_end
RECURSIVE TrimEnd(_)
TrimEnd(s) ==
    IF s # <<>> /\ IsWhitespace(s[Len(s)]) THEN TrimEnd(SubSeq(s, 1, Len(s) - 1)) ELSE s

\* str::trim
Trim(s) == TrimEnd(TrimStart(s))

\* str::contains, for a pattern of one or more characters
Contains(s, pat) ==
    \E i \in 1..(Len(s) - Len(pat) + 1) : SubSeq(s, i, i + Len(pat) - 1) = pat

\* str::split on one character: the pieces between its occurrences
RECURSIVE Split(_, _)
Split(s, c) ==
    IF \A i \in 1..Len(s) : s[i] # c THEN <<s>>
    ELSE LET k == CHOOSE i \in 1..Len(s) : s[i] = c /\ \A j \in 1..(i - 1) : s[j] # c
         IN  <<SubSeq(s, 1, k - 1)>> \o Split(SubSeq(s, k + 1, Len(s)), c)

\* str::lines: the pieces between line feeds, without a last empty one
Lines(s) ==
    LET pieces == Split(s, "\n")
    IN  IF pieces[Len(pieces)] = <<>> THEN SubSeq(pieces, 1, Len(pieces) - 1) ELSE pieces

\* [&str]::join
RECURSIVE Join(_, _)
Join(pieces, sep) ==
    IF pieces = <<>> THEN <<>>
    ELSE IF Len(pieces) = 1 THEN pieces[1]
    ELSE pieces[1] \o sep \o Join(Tail(pieces), sep)

\* str::trim_matches for one character
RECURSIVE TrimMatches(_, _)
TrimMatches(s, c) ==
    IF s # <<>> /\ s[1] = c THEN TrimMatches(Tail(s), c)
    ELSE IF s # <<>> /\ s[Len(s)] = c THEN TrimMatches(SubSeq(s, 1, Len(s) - 1), c)
    ELSE s

\* str::split_whitespace: the non-empty runs of non-whitespace characters
RECURSIVE SplitWhitespace(_)
SplitWhitespace(s) ==
    LET t == TrimStart(s)
    IN  IF t = <<>> THEN <<>>
        ELSE LET k == CHOOSE i \in 1..Len(t) :
                          /\ \A j \in 1..i : ~IsWhitespace(t[j])
                          /\ i = Len(t) \/ IsWhitespace(t[i + 1])
             IN  <<SubSeq(t, 1, k)>> \o SplitWhitespace(SubSeq(t, k + 1, Len(t)))

\* split_whitespace().next().unwrap_or_default()
FirstToken(s) ==
    IF SplitWhitespace(s) = <<>> THEN <<>> ELSE SplitWhitespace(s)[1]

\* str::replace(":", ": ")
RECURSIVE ReplaceColon(_)
ReplaceColon(s) ==
    IF s = <<>> THEN <<>>
    ELSE (IF Head(s) = ":" THEN <<":", " ">> ELSE <<Head(s)>>) \o ReplaceColon(Tail(s))

\* is_gys with its two bracket tests merged into one
Mut_is_gys(text) ==
    IF Contains(text, <<" ", "|", " ">>) THEN TRUE
    ELSE IF StartsWith(text, <<"|">>) THEN TRUE
    ELSE IF EndsWith(text, <<"|">>) THEN TRUE
    ELSE IF StartsWith(text, <<"[">>) /\ EndsWith(text, <<"]">>) THEN TRUE
    ELSE IF ~EndsWith(FirstToken(text), <<":">>) THEN TRUE
    ELSE FALSE

\* Context::is_gys
is_gys(text) ==
    IF Contains(text, <<" ", "|", " ">>) THEN TRUE
    ELSE IF StartsWith(text, <<"|">>) THEN TRUE
    ELSE IF EndsWith(text, <<"|">>) THEN TRUE
    ELSE IF StartsWith(text, <<"[">>) THEN EndsWith(text, <<"]">>)
    ELSE IF EndsWith(text, <<"]">>) THEN StartsWith(text, <<"[">>)
    ELSE IF ~EndsWith(FirstToken(text), <<":">>) THEN TRUE
    ELSE FALSE

\* The texts gys_to_yaml writes
PipelineOpens ==
    <<"p", "i", "p", "e", "l", "i", "n", "e", "_", "f", "r", "o", "m", "_",
      "g", "y", "s", ":", " ", "{", "\n", " ", " ", "s", "t", "e", "p", "s",
      ":", " ", "[", "\n">>
PipelineCloses ==
    <<"\n", " ", " ", "]", "\n", "}">>
FirstIndent ==
    <<" ", " ", " ", " ">>
NextIndent ==
    <<",", "\n", " ", " ", " ", " ">>
EmptyStep ==
    <<"E", "r", "r", "o", "r", ":", " ", "E", "m", "p", "t", "y", " ", "s",
      "t", "e", "p", "!">>
MissingValue ==
    <<"M", "i", "s", "s", "i", "n", "g", " ", "v", "a", "l", "u", "e", " ",
      "f", "o", "r", " ", "k", "e", "y", " ", "'">>
NoArgs ==
    <<" ", "{", "}">>
ArgsOpen ==
    <<" ", "{">>
IsTrue ==
    <<":", " ", "t", "r", "u", "e">>
Comma ==
    <<",", " ">>

\* The arguments loop of gys_to_yaml.  elements[0] of the code is elements[1]
\* here; i is the code's index.  ret is TRUE when the loop returned from
\* gys_to_yaml with a message.
RECURSIVE YamlArgs(_, _, _)
YamlArgs(elements, i, yaml) ==
    LET n == Len(elements)
    IN  IF i >= n THEN [ret |-> FALSE, yaml |-> yaml \o <<"}">>]
        ELSE LET e == elements[i + 1]
             IN  IF e = <<>> THEN YamlArgs(elements, i + 1, yaml)
                 ELSE IF EndsWith(e, <<":">>)
                 THEN IF i = n - 1
                      THEN [ret |-> TRUE, yaml |-> MissingValue \o e \o <<"'">>]
                      ELSE YamlArgs([elements EXCEPT ![i + 2] = <<>>], i + 1,
                                    yaml \o e \o <<" ">> \o elements[i + 2]
                                         \o (IF i + 2 < n THEN Comma ELSE <<>>))
                 ELSE IF Contains(e, <<":">>)
                 THEN YamlArgs(elements, i + 1,
                               yaml \o ReplaceColon(e) \o (IF i + 1 < n THEN Comma ELSE <<>>))
                 ELSE YamlArgs(elements, i + 1,
                               yaml \o e \o IsTrue \o (IF i + 1 < n THEN Comma ELSE <<>>))

\* The comment of a step taken to end at the line feed
MutStripComment(step) ==
    IF \A i \in 1..Len(step) : step[i] # "#" THEN step
    ELSE LET k == CHOOSE i \in 1..Len(step) : step[i] = "#" /\ \A j \in 1..(i - 1) : step[j] # "#"
             rest == SubSeq(step, k, Len(step))
         IN  IF \A i \in 1..Len(rest) : rest[i] # "\n" THEN SubSeq(step, 1, k - 1)
             ELSE LET e == CHOOSE i \in 1..Len(rest) :
                               rest[i] = "\n" /\ \A j \in 1..(i - 1) : rest[j] # "\n"
                  IN  SubSeq(step, 1, k - 1) \o SubSeq(rest, e, Len(rest))

\* "Strip inline comments": step.find('#').map(|index| &step[..index]).unwrap_or(step)
StripComment(step) ==
    IF \A i \in 1..Len(step) : step[i] # "#" THEN step
    ELSE LET k == CHOOSE i \in 1..Len(step) : step[i] = "#" /\ \A j \in 1..(i - 1) : step[j] # "#"
         IN  SubSeq(step, 1, k - 1)

\* The loop of gys_to_yaml over the steps
RECURSIVE YamlSteps(_, _, _)
YamlSteps(steps, indent, yaml) ==
    IF steps = <<>> THEN [ret |-> FALSE, yaml |-> yaml]
    ELSE LET strip == Trim(StripComment(Head(steps)))
             elements == SplitWhitespace(strip)
             n == Len(elements)
         IN  IF n = 0 THEN [ret |-> TRUE, yaml |-> EmptyStep]
             ELSE LET opened == yaml \o indent \o elements[1] \o <<":">>
                  IN  IF n = 1 THEN YamlSteps(Tail(steps), NextIndent, opened \o NoArgs)
                      ELSE LET a == YamlArgs(elements, 1, opened \o ArgsOpen)
                           IN  IF a.ret THEN a
                               ELSE YamlSteps(Tail(steps), NextIndent, a.yaml)

\* The lines gys_to_yaml keeps: those that do not open with '#'
IsCommentLine(line) == StartsWith(Trim(line), <<"#">>)

\* Context::gys_to_yaml
gys_to_yaml(text) ==
    LET lines == Lines(text)
        s == SelectSeq(lines, LAMBDA line : ~IsCommentLine(line))
        joined == Trim(Join(s, <<"\n">>))
    IN  IF ~is_gys(joined) THEN joined
        ELSE LET trimmed == TrimMatches(TrimMatches(TrimMatches(joined, "|"), "["), "]")
                 steps == Split(trimmed, "|")
                 nsteps == Len(steps)
                 r == YamlSteps(steps,
                                IF nsteps > 1 THEN FirstIndent ELSE <<>>,
                                IF nsteps > 1 THEN PipelineOpens ELSE <<>>)
             IN  IF r.ret THEN r.yaml
                 ELSE IF nsteps > 1 THEN r.yaml \o PipelineCloses
                 ELSE r.yaml

\* The characters of the texts handed to is_gys and to gys_to_yaml
GysChars == {"a", ":", " ", "|", "[", "]"}
YamlChars == {"a", "#", "|", "\n", " "}

NoGysCall == [op |-> "", is |-> FALSE, yaml |-> <<>>]

\* A text a caller holds, not yet handed over
GysStart(texts) ==
    /\ gys \in texts
    /\ gys_call = NoGysCall

\* is_gys is called
IsGys ==
    /\ gys_call' = [op |-> "is_gys", is |-> is_gys(gys), yaml |-> <<>>]
    /\ UNCHANGED gys
    /\ UNCHANGED <<ctxVars, adaptVars, pipeVars, moloVars>>

\* gys_to_yaml is called
GysToYaml ==
    /\ gys_call' = [op |-> "gys_to_yaml", is |-> FALSE, yaml |-> gys_to_yaml(gys)]
    /\ UNCHANGED gys
    /\ UNCHANGED <<ctxVars, adaptVars, pipeVars, moloVars>>

\* ------------------------------------------------------- specifications

\* operation() is called while the table has room, or when it will fail
CanCall(d) ==
    \/ Len(operations) < MaxOps
    \/ OperatorNew(d, user_defined_macros, user_defined_operators).op = None

\* The Context and its callers
Init ==
    /\ CtxInit
    /\ AdaptStart({<<Num(1), Num(2), Num(3), Num(4)>>})
    /\ PipeStart({<<>>})
    /\ GysStart({<<>>})
    /\ MoloStart({<<>>})

Next ==
    \/ \E name \in OperatorNames, c \in Constructors : RegisterOperator(name, c)
    \/ \E name \in MacroNames, d \in MacroSamples : RegisterMacro(name, d)
    \/ \E d \in OperationSamples : CanCall(d) /\ Operation(d)
    \/ \E h \in 0..MaxOps, b \in Batches : Fwd(h, b)
    \/ \E h \in 0..MaxOps, b \in Batches : Inv(h, b)
    \/ Report

Spec == Init /\ [][Next]_vars

\* register_macro alone, over every definition up to MaxDefLen characters
MacroChars == {"m", "n", ":", " "}

MacroNext ==
    \E d \in TextsUpTo(MacroChars, MaxDefLen) : RegisterMacro(<<"m">>, d)

MacroSpec == Init /\ [][MacroNext]_vars

\* The adapt operator and its callers
AdaptInit ==
    /\ CtxInit
    /\ AdaptStart(Tuples)
    /\ PipeStart({<<>>})
    /\ GysStart({<<>>})
    /\ MoloStart({<<>>})

AdaptNext ==
    \/ adapt = NotBuilt /\ \E args \in AdaptArgs : AdaptConstruct(args)
    \/ \E forward \in BOOLEAN : AdaptApply(forward)

AdaptSpec == AdaptInit /\ [][AdaptNext]_vars

\* The pipeline operator and its callers
PipeInit ==
    /\ CtxInit
    /\ AdaptStart({<<Num(1), Num(2), Num(3), Num(4)>>})
    /\ PipeStart(PipeBatches)
    /\ GysStart({<<>>})
    /\ MoloStart({<<>>})

PipeNext ==
    \/ pipe = NoPipe
       /\ \E thesteps \in SeqsUpTo(StepDefinitions, MaxSteps) : PipelineConstruct(thesteps)
    \/ pipe.ok /\ \E counts \in Counts : PipelineFwd(counts)
    \/ pipe.ok /\ \E counts \in Counts : PipelineInv(counts)

PipeSpec == PipeInit /\ [][PipeNext]_vars

\* Everything but the normalizer and molodensky, before any call
Idle ==
    /\ CtxInit
    /\ AdaptStart({<<Num(1), Num(2), Num(3), Num(4)>>})
    /\ PipeStart({<<>>})

\* is_gys, over every text of up to MaxGysLen characters
GysInit ==
    /\ Idle
    /\ GysStart(TextsUpTo(GysChars, MaxGysLen))
    /\ MoloStart({<<>>})

GysNext == IsGys

GysSpec == GysInit /\ [][GysNext]_vars

\* gys_to_yaml, over every text of up to MaxYamlLen characters
YamlInit ==
    /\ Idle
    /\ GysStart(TextsUpTo(YamlChars, MaxYamlLen))
    /\ MoloStart({<<>>})

YamlNext == GysToYaml

YamlSpec == YamlInit /\ [][YamlNext]_vars

\* The molodensky operator and its callers
MoloInit ==
    /\ Idle
    /\ GysStart({<<>>})
    /\ MoloStart(MoloBatches)

MoloNext ==
    \/ molo = NoMolo /\ \E args \in MoloArgs : MoloConstruct(args)
    \/ MoloFwd
    \/ MoloInv

MoloSpec == MoloInit /\ [][MoloNext]_vars

\* operate over batches of more than one chunk, on a Context from either
\* public constructor
BatchOf(n) == [k \in 1..n |-> Origin]

\* No operand, one, one more than a chunk, one more than a round of the pool
BatchSizes == {0, 1, CHUNK_SIZE + 1, CHUNKS * CHUNK_SIZE + 1}

ChunkInit ==
    /\ CtxStart({NewMinions, DefaultMinions})
    /\ AdaptStart({<<Num(1), Num(2), Num(3), Num(4)>>})
    /\ PipeStart({<<>>})
    /\ GysStart({<<>>})
    /\ MoloStart({<<>>})

ChunkNext ==
    \/ \E name \in OperatorNames, c \in Constructors : RegisterOperator(name, c)
    \/ \E d \in {<<"a">>, <<"u">>} : CanCall(d) /\ Operation(d)
    \/ \E h \in 0..MaxOps, n \in BatchSizes : Fwd(h, BatchOf(n))
    \/ \E h \in 0..MaxOps, n \in BatchSizes : Inv(h, BatchOf(n))

ChunkSpec == ChunkInit /\ [][ChunkNext]_vars

\* ---------------------------------------------------------------- claims

Triplet == <<last_failing_operation, cause, last_failing_operation_definition>>

\* How many whitespace characters open a text
LeadingWhitespace(text) ==
    CHOOSE k \in 0..Len(text) :
        /\ \A i \in 1..k : IsWhitespace(text[i])
        /\ k = Len(text) \/ ~IsWhitespace(text[k + 1])

\* After its leading whitespace, the definition reads name and then ':'
OpensWithOwnName(name, definition) ==
    LET k == LeadingWhitespace(definition)
    IN  /\ Len(definition) >= k + Len(name) + 1
        /\ \A i \in 1..Len(name) : definition[k + i] = name[i]
        /\ definition[k + Len(name) + 1] = ":"

\* C1: register_macro for a name that is already registered returns false
\* and leaves the definition stored for that name as it was.
C1_RefusesOverwrite ==
    [][(call'.op = "register_macro" /\ call'.name \in DOMAIN user_defined_macros)
          => /\ call'.ret = FALSE
             /\ locate_macro(user_defined_macros', call'.name)
                    = locate_macro(user_defined_macros, call'.name)]_vars

\* C2: register_macro returns false whenever the definition, after leading
\* whitespace, begins with the name followed by ':', and then the macro
\* registry is left unchanged.
C2_SelfReferenceRefused ==
    [][(call'.op = "register_macro" /\ OpensWithOwnName(call'.name, call'.definition))
          => /\ call'.ret = FALSE
             /\ user_defined_macros' = user_defined_macros]_vars

\* C2 witness: a self-referential definition with leading whitespace was
\* refused for a name that already holds another definition.
C2_Witness ==
    /\ call.op = "register_macro"
    /\ call.definition = <<" ", "m", ":">>
    /\ call.ret = FALSE
    /\ locate_macro(user_defined_macros, call.name) = Some(<<"n", ":">>)

\* C3: the operation table only grows and no entry is removed, reordered
\* or replaced, whatever is called.
C3_HandlesStable ==
    [][/\ Len(operations') >= Len(operations)
       /\ \A h \in 1..Len(operations) : operations'[h] = operations[h]]_vars

\* C3 witness: two different operators are stored, and a failing operation()
\* has just been called on top of them.
C3_Witness ==
    /\ Len(operations) >= 2
    /\ operations[1] # operations[2]
    /\ call.op = "operation"
    /\ call.ret = None

\* C4: operate with a handle not below the number of stored operations
\* returns false, records "Invalid" and its cause, and leaves the operands,
\* the operation table and the minion stacks alone; no chunk is dispatched.
C4_InvalidHandle ==
    [][(call'.op = "operate" /\ call'.operation >= Len(operations))
          => /\ call'.ret = FALSE
             /\ last_failing_operation' = "Invalid"
             /\ cause' = "Attempt to access an invalid operator from context"
             /\ call'.operands = call'.given
             /\ call'.chunks = <<>>
             /\ operations' = operations
             /\ minions' = minions]_vars

\* C4 witness: a non-empty batch was refused while operations are stored.
C4_Witness ==
    /\ call.op = "operate"
    /\ call.operation >= Len(operations)
    /\ Len(operations) > 0
    /\ Len(call.given) > 0
    /\ call.ret = FALSE
    /\ last_failing_operation = "Invalid"

\* C5: operation(definition) returns None exactly when construction fails,
\* and then the table is unchanged and the recorded definition is the one
\* given; otherwise it returns the table's length before the call and the
\* table has grown by exactly that one entry.
C5_OperationResult ==
    [][call'.op = "operation"
          => LET built == OperatorNew(call'.definition, user_defined_macros,
                                      user_defined_operators)
             IN  /\ (call'.ret = None) <=> (built.op = None)
                 /\ built.op = None
                       => /\ operations' = operations
                          /\ last_failing_operation_definition' = call'.definition
                 /\ built.op # None
                       => /\ call'.ret = Some(Len(operations))
                          /\ Len(operations') = Len(operations) + 1
                          /\ SubSeq(operations', 1, Len(operations)) = operations
                          /\ operations'[Len(operations) + 1] = built.op[1]]_vars

\* C5 witness: a failing operation() after a successful one.
C5_Witness ==
    /\ call.op = "operation"
    /\ call.ret = None
    /\ Len(operations) = 1
    /\ last_failing_operation_definition = <<"x">>

\* C6: the triplet report() renders belongs to the most recent failing call:
\* once a failure is recorded, a successful operation() or operate changes
\* none of the three fields, and an invalid-handle operate leaves no
\* definition of another call in it.
C6_TripletOfLastFailure ==
    [][/\ (last_failing_operation # "" /\ call'.op = "operation" /\ call'.ret # None)
             => Triplet' = Triplet
       /\ (last_failing_operation # "" /\ call'.op = "operate" /\ call'.ret = TRUE)
             => Triplet' = Triplet
       /\ (call'.op = "operate" /\ call'.operation >= Len(operations))
             => last_failing_operation_definition' = <<>>]_vars

\* The designators of a descriptor's four axes; pass stands for enut
Axes(desc) == IF desc = Pass THEN Enut ELSE SubSeq(desc, 1, 4)

\* The axis a designator names (e/w, n/s, u/d, t/r) and its sign
AxisOf(d) ==
    CASE d \in {"e", "w"} -> 1 [] d \in {"n", "s"} -> 2
      [] d \in {"u", "d"} -> 3 [] d \in {"t", "r"} -> 4
SignOf(d) == IF d \in {"e", "n", "u", "t"} THEN 1 ELSE -1

\* The factor to radians a descriptor gives position j (0-based)
UnitOf(desc, j) ==
    IF j > 1 \/ Len(desc) # 8 THEN One
    ELSE IF EndsWith(desc, SuffixDeg) THEN DegToRad
    ELSE IF EndsWith(desc, SuffixGon) THEN GonToRad
    ELSE One

\* Both descriptors are given, valid, and the operator is not inverted
PlainPair ==
    /\ adapt.ok
    /\ ~adapt_args.inv
    /\ adapt_args.from # None
    /\ adapt_args.to # None

\* C7: forward and then inverse of an adapt operator returns the tuple it
\* was given, for every valid descriptor pair.
C7_AdaptInvolution ==
    (adapt.ok /\ applied = <<TRUE, FALSE>>) => coord = given

\* C8: adapt forward puts at output position j the input of the position k
\* where `from` has the axis `to` has at j, times the sign of `from` at k,
\* times the sign of `to` at j, times the unit ratio.
C8_AdaptForward ==
    (PlainPair /\ applied = <<TRUE>>)
        => LET from == adapt_args.from[1]
               to == adapt_args.to[1]
           IN  \A j \in 1..4 :
                   LET k == CHOOSE k \in 1..4 :
                                AxisOf(Axes(from)[k]) = AxisOf(Axes(to)[j])
                   IN  coord[j] =
                           Mul(Mul(given[k],
                                   Num(SignOf(Axes(from)[k]) * SignOf(Axes(to)[j]))),
                               Div(UnitOf(from, j - 1), UnitOf(to, j - 1)))

\* operate called with each direction of dirs in turn
RECURSIVE OperateAll(_, _, _)
OperateAll(op, o, dirs) ==
    IF dirs = <<>> THEN o
    ELSE OperateAll(op, AdaptOperate(op, o, Head(dirs)), Tail(dirs))

\* C9: `adapt inv from: X` is `adapt to: X`: the same post, mult and noop
\* (or the same refusal), and the same outputs for every sequence of
\* forward and inverse calls.
C9_InvFromIsTo ==
    (adapt_args.inv /\ adapt_args.from # None /\ adapt_args.to = None)
        => LET other == AdaptNew([inv |-> FALSE, from |-> None, to |-> adapt_args.from])
           IN  /\ adapt.ok = other.ok
               /\ adapt.ok
                     => /\ adapt.post = other.post
                        /\ adapt.mult = other.mult
                        /\ adapt.noop = other.noop
                        /\ coord = OperateAll(other, given, applied)

\* C9 witness: `adapt inv from: neut_deg`, applied forward and then inverse.
C9_Witness ==
    /\ adapt_args = [inv |-> TRUE, to |-> None,
                     from |-> Some(<<"n", "e", "u", "t">> \o SuffixDeg)]
    /\ adapt.ok
    /\ ~adapt.noop
    /\ applied = <<TRUE, FALSE>>

\* C10: forward, a pipeline calls apply on each step once, in declared
\* order, with Fwd; in inverse, on each step once, in reverse order, with
\* Inv; whatever the steps report.
C10_StepOrder ==
    LET n == Len(pipe.steps)
        trace == pipe_call.trace
    IN  /\ pipe_call.direction = "Fwd"
           => /\ Len(trace) = n
              /\ \A i \in 1..n : trace[i].step = i /\ trace[i].direction = "Fwd"
        /\ pipe_call.direction = "Inv"
           => /\ Len(trace) = n
              /\ \A i \in 1..n : trace[i].step = n + 1 - i /\ trace[i].direction = "Inv"

\* C10 witness: an inverse application of three steps whose first call
\* reported no success on a batch of two.
C10_Witness ==
    /\ pipe.ok
    /\ Len(pipe.steps) = 3
    /\ pipe_call.direction = "Inv"
    /\ Len(pipe_call.given) = 2
    /\ Len(pipe_call.trace) = 3
    /\ pipe_call.trace[1].n = 0
    /\ pipe_call.trace[1].step = 3

\* A pipeline whose steps are all addone
AddoneOnly ==
    /\ pipe.ok
    /\ \A i \in 1..Len(pipe.steps) : pipe.steps[i].name = "addone"

\* n - 2k for n addone steps of which k carry the inv flag
Net ==
    Len(pipe.steps) - 2 * Cardinality({i \in 1..Len(pipe.steps) : pipe.steps[i].inverted})

\* C11: a pipeline of n addone steps, k of them inverted, adds n - 2k to
\* every operand when applied forward and subtracts n - 2k when applied in
\* inverse, so an inverse application right after a forward one hands back
\* the batch the forward one was given.
C11_Composition ==
    AddoneOnly =>
        /\ pipe_call.direction = "Fwd"
           => pipe_operands = [j \in 1..Len(pipe_call.given) |-> pipe_call.given[j] + Net]
        /\ pipe_call.direction = "Inv"
           => pipe_operands = [j \in 1..Len(pipe_call.given) |-> pipe_call.given[j] - Net]
        /\ (pipe_call.direction = "Inv" /\ pipe_call.prev.direction = "Fwd")
           => pipe_operands = pipe_call.prev.given

\* C11 witness: addone | addone inv | addone on (55, 59), forward to
\* (56, 60) and back.
C11_Witness ==
    /\ pipe.ok
    /\ pipe_definition = <<[name |-> "addone", inv |-> FALSE],
                           [name |-> "addone", inv |-> TRUE],
                           [name |-> "addone", inv |-> FALSE]>>
    /\ pipe_call.direction = "Inv"
    /\ pipe_call.prev.direction = "Fwd"
    /\ pipe_call.prev.given = <<55, 59>>
    /\ pipe_call.given = <<56, 60>>
    /\ pipe_operands = <<55, 59>>

\* The least of the counts the steps reported in the last application
RECURSIVE LeastOf(_)
LeastOf(trace) ==
    IF Len(trace) = 1 THEN trace[1].n
    ELSE Min(trace[1].n, LeastOf(Tail(trace)))

\* C12: what a pipeline returns is the least of the counts its steps
\* reported in that call, and never more than the number of operands, also
\* for a pipeline without steps.
C12_MinOfCounts ==
    pipe_call.direction # "" =>
        /\ pipe_call.trace # <<>> => pipe_call.ret = LeastOf(pipe_call.trace)
        /\ pipe_call.ret <= Len(pipe_call.given)

\* The definition holds a step that does not compile
FirstFailure ==
    CHOOSE i \in 1..Len(pipe_definition) :
        /\ ~OpOp(pipe_definition[i]).ok
        /\ \A j \in 1..(i - 1) : OpOp(pipe_definition[j]).ok

\* C13: when some step of the definition fails to compile, new fails with
\* the error of that step and gives no pipeline; otherwise the pipeline has
\* one compiled step per step of the definition, in the definition's order.
C13_AllOrNothing ==
    pipe # NoPipe =>
        IF \E i \in 1..Len(pipe_definition) : ~OpOp(pipe_definition[i]).ok
        THEN /\ ~pipe.ok
             /\ pipe.err = <<"NotFound", pipe_definition[FirstFailure].name>>
        ELSE /\ pipe.ok
             /\ Len(pipe.steps) = Len(pipe_definition)
             /\ \A i \in 1..Len(pipe_definition) :
                    /\ pipe.steps[i].name = pipe_definition[i].name
                    /\ pipe.steps[i].inverted = pipe_definition[i].inv

\* C13 witness: addone | addone | _garbage is refused with NotFound.
C13_Witness ==
    /\ pipe_definition = <<[name |-> "addone", inv |-> FALSE],
                           [name |-> "addone", inv |-> FALSE],
                           [name |-> "_garbage", inv |-> FALSE]>>
    /\ ~pipe.ok
    /\ pipe.err = <<"NotFound", "_garbage">>

\* The marks of GYS, read off the text
HasWrappedPipe(text) ==
    \E i \in 1..(Len(text) - 2) : text[i] = " " /\ text[i + 1] = "|" /\ text[i + 2] = " "

PipeAtAnEnd(text) == text # <<>> /\ (text[1] = "|" \/ text[Len(text)] = "|")

OpensWithBracket(text) == text # <<>> /\ text[1] = "["

ClosesWithBracket(text) == text # <<>> /\ text[Len(text)] = "]"

\* The first whitespace-separated token ends with ':'
FirstTokenEndsWithColon(text) ==
    \E k \in 1..Len(text) : \E i \in k..Len(text) :
        /\ \A j \in 1..(k - 1) : IsWhitespace(text[j])
        /\ \A j \in k..i : ~IsWhitespace(text[j])
        /\ text[i] = ":"
        /\ i = Len(text) \/ IsWhitespace(text[i + 1])

\* C14, as claimed: is_gys is true exactly when the text holds " | ", or
\* begins or ends with '|', or is wrapped in '[' and ']', or its first token
\* does not end with ':'.
C14_GysIff ==
    gys_call.op = "is_gys" =>
        (gys_call.is <=> \/ HasWrappedPipe(gys)
                         \/ PipeAtAnEnd(gys)
                         \/ OpensWithBracket(gys) /\ ClosesWithBracket(gys)
                         \/ ~FirstTokenEndsWithColon(gys))

\* C14, amended: the test of the first token decides only for a text that
\* neither begins with '[' nor ends with ']'; a text with a bracket at one
\* end only, and no '|' mark, is not GYS.
C14_GysClassified ==
    gys_call.op = "is_gys" =>
        (gys_call.is <=> \/ HasWrappedPipe(gys)
                         \/ PipeAtAnEnd(gys)
                         \/ OpensWithBracket(gys) /\ ClosesWithBracket(gys)
                         \/ /\ ~OpensWithBracket(gys)
                            /\ ~ClosesWithBracket(gys)
                            /\ ~FirstTokenEndsWithColon(gys))

\* C14 witness: "[a" is not GYS.
C14_Witness ==
    /\ gys = <<"[", "a">>
    /\ gys_call.op = "is_gys"
    /\ ~gys_call.is

\* A text without the characters from each '#' up to the next occurrence of
\* stop (which is kept), or to the end of the text
RECURSIVE CutComments(_, _, _)
CutComments(text, stop, inside) ==
    IF text = <<>> THEN <<>>
    ELSE IF Head(text) = stop THEN <<stop>> \o CutComments(Tail(text), stop, FALSE)
    ELSE IF inside \/ Head(text) = "#" THEN CutComments(Tail(text), stop, TRUE)
    ELSE <<Head(text)>> \o CutComments(Tail(text), stop, FALSE)

\* Every '#' of the text comes after a token of its own line and step:
\* looking back from it over blanks and other '#', a token character is met
InlineComments(text) ==
    \A i \in 1..Len(text) :
        text[i] = "#" =>
            \E k \in 1..(i - 1) :
                /\ text[k] \notin {" ", "#", "|", "\n"}
                /\ \A j \in (k + 1)..(i - 1) : text[j] \in {" ", "#"}

\* C15, as claimed: a comment runs from '#' to the end of its line, so
\* gys_to_yaml gives what it gives for the text with every '#' and what
\* follows it on its line taken out.
C15_CommentToEndOfLine ==
    (gys_call.op = "gys_to_yaml" /\ InlineComments(gys)) =>
        gys_call.yaml = gys_to_yaml(CutComments(gys, "\n", FALSE))

\* C15, amended: a '#' that follows a token of its step begins a comment
\* that runs to the end of the step, that is to the next '|' or to the end
\* of the text: gys_to_yaml gives what it gives for the text with every '#'
\* and what follows it up to there taken out.  Tokens of the step on a later
\* line go with the comment, and a '|' inside the comment text ends it.
C15_CommentToEndOfStep ==
    (gys_call.op = "gys_to_yaml" /\ InlineComments(gys)) =>
        gys_call.yaml = gys_to_yaml(CutComments(gys, "|", FALSE))

\* C15 witness: in "a#\na" the second line belongs to the comment of the
\* only step.
C15_Witness ==
    /\ gys = <<"a", "#", "\n", "a">>
    /\ gys_call.op = "gys_to_yaml"
    /\ gys_call.yaml = <<"a", ":", " ", "{", "}">>

\* The argument names an ellipsoid of the table
Known(arg) == arg # None /\ arg[1] \in DOMAIN Ellipsoids

\* The argument is given and names no ellipsoid
Unknown(arg) == arg # None /\ arg[1] \notin DOMAIN Ellipsoids

\* C16: built from left_ellps and right_ellps, molodensky holds
\* da = right.a - left.a and df = right.f - left.f, and takes its ellipsoid
\* (a, f), its e2 and its adffda = a df + f da from the ellipsoid that
\* left_ellps names.
C16_LeftAndRight ==
    (molo.ok /\ molo_args.ellps = None
             /\ Known(molo_args.left_ellps) /\ Known(molo_args.right_ellps)) =>
        LET left == Ellipsoids[molo_args.left_ellps[1]]
            right == Ellipsoids[molo_args.right_ellps[1]]
        IN  /\ molo.da = FSub(right.a, left.a)
            /\ molo.df = FSub(right.f, left.f)
            /\ molo.ellps = left
            /\ molo.es = FMul(left.f, FSub(Num(2), left.f))
            /\ molo.adffda = FAdd(FMul(left.a, molo.df), FMul(left.f, molo.da))

\* The operand makes a denominator of calc_molodensky_params zero
HitsZero(c) == calc_molodensky_params(molo, c) = TupleNan

\* C17: after fwd or inv the batch has the length it had; an operand that
\* made a denominator zero holds NaN in its first three places; and when
\* there was such an operand the call does not report success.
C17_NanDegrades ==
    molo_call.op \in {"fwd", "inv"} =>
        /\ Len(molo_operands) = Len(molo_call.given)
        /\ \A k \in 1..Len(molo_call.given) :
               HitsZero(molo_call.given[k])
                   => \A j \in 1..3 : IsNaN(molo_operands[k][j])
        /\ (\E k \in 1..Len(molo_call.given) : HitsZero(molo_call.given[k]))
               => ~molo_call.ret

\* C18: molodensky given a name that is no ellipsoid, in ellps, left_ellps
\* or right_ellps, is not built.
C18_UnknownEllipsoid ==
    (molo # NoMolo /\ \/ Unknown(molo_args.ellps)
                      \/ Unknown(molo_args.left_ellps)
                      \/ Unknown(molo_args.right_ellps)) =>
        ~molo.ok

\* The number of chunks of a batch of n operands
ChunksOf(n) == (n + CHUNK_SIZE - 1) \div CHUNK_SIZE

\* C19: operate with a valid handle cuts the batch into consecutive chunks
\* of CHUNK_SIZE operands (the last one may be shorter) that cover it, hands
\* chunk k to minion k mod CHUNKS in index order, works every chunk also
\* after one that failed, returns the conjunction of the chunks' results
\* and leaves every minion's stack empty; an empty batch gives true and
\* uses no minion.
C19_Chunking ==
    (call.op = "operate" /\ call.valid) =>
        LET n == Len(call.given)
            chunks == call.chunks
        IN  /\ ~call.panicked
            /\ Len(chunks) = ChunksOf(n)
            /\ \A k \in 1..Len(chunks) :
                   /\ chunks[k].first = (k - 1) * CHUNK_SIZE
                   /\ chunks[k].len = Min(CHUNK_SIZE, n - chunks[k].first)
                   /\ chunks[k].minion = (k - 1) % CHUNKS
            /\ call.ret = \A k \in 1..Len(chunks) : chunks[k].ok
            /\ Len(call.operands) = n
            /\ \A i \in 1..Len(minions) : minions[i].stack = <<>>
            /\ n = 0 => call.ret /\ chunks = <<>>

\* C20: the Context has a pool of exactly CHUNKS minions, each without
\* minions of its own, whatever has been called; so operate with a valid
\* handle and a batch that is not empty finds its minion.
C20_PoolOfThree ==
    /\ Len(minions) = CHUNKS
    /\ \A i \in 1..Len(minions) : minions[i].minions = <<>>
    /\ (call.op = "operate" /\ call.valid /\ call.given # <<>>) => ~call.panicked

====
